---- MODULE Spec2Model ----
(***************************************************************************)
(* A model of github.com/postfinance/httpclient (httpclient.go): the       *)
(* Client configuration, request construction (NewRequest), the default    *)
(* codec and callbacks, the response-body split (drainBody) and the        *)
(* dispatch pipeline (Do).                                                 *)
(*                                                                         *)
(* Go values are represented as follows.  A nil pointer, interface or      *)
(* function value is the string "nil".  An error is a sequence of strings, *)
(* the messages of its wrap chain from the outside in; the nil error is    *)
(* the empty sequence.  An http.Header is a function from header names to  *)
(* sequences of values.  A byte stream is a record with its kind, its      *)
(* content, the read position and the number of Close calls it received.   *)
(***************************************************************************)
EXTENDS Integers, Sequences, FiniteSets, TLC

VARIABLES
    client,        \* the *Client: its configuration fields
    customHeader,  \* the http.Header object that was given to WithHeader
    built,         \* the last NewRequest call: its inputs and its outcome
    calls,         \* the Do calls: one record of locals and heap per caller
    granted,       \* number of limiter.Wait calls that returned nil
    transportCalls, \* number of c.client.Do calls started
    probe          \* the last call of a function of the package: inputs and results

vars == <<client, customHeader, built, calls, granted, transportCalls, probe>>

----------------------------------------------------------------------------
(* Bounds of the model *)

\* longest response body, in bytes
MaxBody == 2
\* most values one header name of the shared custom header set may hold
MaxHeaderValues == 3

----------------------------------------------------------------------------
(* Constants and variables of the package: httpclient.go 26-36 *)

ContentTypeText == "text/plain"
ContentTypeJSON == "application/json"
ContentTypeYAML == "application/yaml"

NoErr == <<>>
ErrUnknownContentType == <<"unknown media type">>
ErrTooManyRequest == <<"too many requests">>

\* errors.Wrap(err, msg): the message in front of the chain of causes
Wrap(err, msg) == <<msg>> \o err

\* a content type outside the three known ones
ContentTypeUnknown == "unknown/unknown"
ContentTypes == {ContentTypeText, ContentTypeJSON, ContentTypeYAML, ContentTypeUnknown}

\* function-valued fields: absent, the package default, or one set by the application
FuncValues == {"nil", "default", "custom"}

----------------------------------------------------------------------------
(* http.Header *)

HeaderNames == {"Content-Type", "Accept", "Authorization", "X-Requested-By"}

EmptyHeader == [k \in HeaderNames |-> <<>>]

\* Header.Add appends to the values of the key
HeaderAdd(h, k, v) == [h EXCEPT ![k] = Append(@, v)]

\* Header.Set replaces the values of the key
HeaderSet(h, k, v) == [h EXCEPT ![k] = <<v>>]

\* Header.Get is the first value of the key, "" when there is none
HeaderGet(h, k) == IF h[k] = <<>> THEN "" ELSE h[k][1]

\* Request.SetBasicAuth sets Authorization to "Basic " + base64(username:password)
BasicAuth(u, p) == "Basic " \o u \o ":" \o p

SetBasicAuth(h, u, p) == HeaderSet(h, "Authorization", BasicAuth(u, p))

\* Request.BasicAuth: the credentials of the Authorization header, if it holds some
HasBasicAuth(h, u, p) == HeaderGet(h, "Authorization") = BasicAuth(u, p)

----------------------------------------------------------------------------
(* The default codec, request side: httpclient.go 262-292 *)

\* payloads handed to NewRequest: none, a struct that encodes, a value no codec encodes
Payloads == {"nil", "msg", "chan"}

\* the payloads that have a String method
Stringers == {"msg"}

\* json.NewEncoder(w).Encode(v): the bytes written and the error
MarshalJSON(v) ==
    IF v = "chan" THEN [out |-> <<>>, err |-> <<"json: unsupported type">>]
    ELSE [out |-> <<"json", v>>, err |-> NoErr]

\* yaml.Marshal(v) then w.Write
MarshalYAML(v) ==
    IF v = "chan" THEN [out |-> <<>>, err |-> <<"yaml: cannot marshal type">>]
    ELSE [out |-> <<"yaml", v>>, err |-> NoErr]

\* marshal is the default marshaler: the content type, the bytes written, the error
marshalNilDispatched(v, mediaType) ==
    IF mediaType = ContentTypeJSON
        THEN [ct |-> ContentTypeJSON, out |-> MarshalJSON(v).out, err |-> MarshalJSON(v).err]
    ELSE IF mediaType = ContentTypeYAML
        THEN [ct |-> ContentTypeYAML, out |-> MarshalYAML(v).out, err |-> MarshalYAML(v).err]
    ELSE IF mediaType = ContentTypeText
        THEN [ct |-> ContentTypeText, out |-> <<"text", v>>, err |-> NoErr]
    ELSE [ct |-> mediaType, out |-> <<>>, err |-> Wrap(ErrUnknownContentType, mediaType)]
marshalUnwrapped(v, mediaType) ==
    IF v = "nil" THEN [ct |-> mediaType, out |-> <<>>, err |-> NoErr]
    ELSE IF mediaType = ContentTypeJSON
        THEN [ct |-> ContentTypeJSON, out |-> MarshalJSON(v).out, err |-> MarshalJSON(v).err]
    ELSE IF mediaType = ContentTypeYAML
        THEN [ct |-> ContentTypeYAML, out |-> MarshalYAML(v).out, err |-> MarshalYAML(v).err]
    ELSE IF mediaType = ContentTypeText
        THEN [ct |-> ContentTypeText, out |-> <<"text", v>>, err |-> NoErr]
    ELSE [ct |-> mediaType, out |-> <<>>, err |-> ErrUnknownContentType]
marshal(v, mediaType) ==
    IF v = "nil" THEN [ct |-> mediaType, out |-> <<>>, err |-> NoErr]
    ELSE IF mediaType = ContentTypeJSON
        THEN [ct |-> ContentTypeJSON, out |-> MarshalJSON(v).out, err |-> MarshalJSON(v).err]
    ELSE IF mediaType = ContentTypeYAML
        THEN [ct |-> ContentTypeYAML, out |-> MarshalYAML(v).out, err |-> MarshalYAML(v).err]
    ELSE IF mediaType = ContentTypeText
        THEN [ct |-> ContentTypeText, out |-> <<"text", v>>, err |-> NoErr]
    ELSE [ct |-> mediaType, out |-> <<>>, err |-> Wrap(ErrUnknownContentType, mediaType)]

\* what a Marshaler set by the application may return
CustomMarshalResults ==
    [ct : {ContentTypeJSON, ContentTypeText}, out : {<<"custom">>}, err : {NoErr}]
        \cup [ct : {ContentTypeJSON}, out : {<<>>}, err : {<<"custom marshal failed">>}]

----------------------------------------------------------------------------
(* Request construction: httpclient.go 222-259 *)

Methods == {"GET", "BAD METHOD"}
\* http.NewRequest rejects a method that is no token
validMethod(method) == method # "BAD METHOD"

URLStrs == {"node", "https://show you.domain"}
\* url.Parse rejects a host with a space in it
urlParses(urlStr) == urlStr # "https://show you.domain"

\* the request objects a RequestCallback may return: the one it was given,
\* another one, or none
RequestCallbackResults == {"req", "other", "nil"}

\* requestCallback returns the unmodified request
requestCallback(r) == r

NoBuilt ==
    [outcome |-> "none", method |-> "", urlStr |-> "", body |-> "nil",
     marshaled |-> FALSE, contentType |-> "", out |-> <<>>, merr |-> NoErr,
     intercepted |-> FALSE, seen |-> EmptyHeader, given |-> EmptyHeader, aliased |-> FALSE,
     req |-> "nil", err |-> NoErr]

\* the panic that ends NewRequest when the Marshaler is nil
panicMarshaler(b) == [b EXCEPT !.outcome = "panic", !.err = <<"Marshaler is nil">>]

\* the panic that ends NewRequest when the RequestCallback is nil
panicRequestCallbackAsError(b) ==
    [b EXCEPT !.outcome = "returned", !.req = "nil", !.err = <<"RequestCallback is nil">>]
panicRequestCallback(b) == [b EXCEPT !.outcome = "panic", !.err = <<"RequestCallback is nil">>]

\* a return of NewRequest
returnRequest(b, req, err) == [b EXCEPT !.outcome = "returned", !.req = req, !.err = err]

\* the header set of the request after lines 245-253
requestHeaderEitherCredential(c, h, contentType) ==
    LET h0 == IF c.header # "nil" THEN h ELSE EmptyHeader
        h1 == IF c.username # "" \/ c.password # "" THEN SetBasicAuth(h0, c.username, c.password) ELSE h0
    IN  HeaderAdd(HeaderAdd(h1, "Content-Type", contentType), "Accept", contentType)
requestHeaderConfigured(c, h, contentType) ==
    LET h0 == IF c.header # "nil" THEN h ELSE EmptyHeader
        h1 == IF c.username # "" /\ c.password # "" THEN SetBasicAuth(h0, c.username, c.password) ELSE h0
    IN  HeaderAdd(HeaderAdd(h1, "Content-Type", c.ContentType), "Accept", c.ContentType)
requestHeader(c, h, contentType) ==
    LET h0 == IF c.header # "nil" THEN h ELSE EmptyHeader
        h1 == IF c.username # "" /\ c.password # "" THEN SetBasicAuth(h0, c.username, c.password) ELSE h0
    IN  HeaderAdd(HeaderAdd(h1, "Content-Type", contentType), "Accept", contentType)

\* NewRequest(method, urlStr, body); cm is what a custom Marshaler returns and
\* cb what a custom RequestCallback returns
NewRequest(method, urlStr, body, cm, cb) ==
    /\ built.outcome = "none"
    /\ client.header = "nil" \/ Len(customHeader["Content-Type"]) < MaxHeaderValues
    \* cm is read by a custom Marshaler only, cb by a custom RequestCallback only
    /\ client.Marshaler # "custom" => cm = [ct |-> ContentTypeJSON, out |-> <<"custom">>, err |-> NoErr]
    /\ client.RequestCallback # "custom" => cb = "req"
    /\ LET b0 == [NoBuilt EXCEPT !.method = method, !.urlStr = urlStr, !.body = body,
                             !.given = IF client.header # "nil" THEN customHeader
                                                                ELSE EmptyHeader]
           m == IF client.Marshaler = "default" THEN marshal(body, client.ContentType) ELSE cm
           b1 == [b0 EXCEPT !.marshaled = TRUE, !.contentType = m.ct, !.out = m.out,
                           !.merr = m.err]
           h == requestHeader(client, customHeader, m.ct)
           b2 == [b1 EXCEPT !.aliased = (client.header # "nil")]
           ret == IF client.RequestCallback = "default" THEN requestCallback("req") ELSE cb
       IN  IF ~urlParses(urlStr)
               THEN built' = returnRequest(b0, "nil", <<"parse", urlStr>>) /\ UNCHANGED customHeader
           ELSE IF client.Marshaler = "nil"
               THEN built' = panicMarshaler(b0) /\ UNCHANGED customHeader
           ELSE IF m.err # NoErr
               THEN built' = returnRequest(b1, "nil", m.err) /\ UNCHANGED customHeader
           ELSE IF ~validMethod(method)
               THEN built' = returnRequest(b1, "nil", <<"net/http: invalid method">>)
                    /\ UNCHANGED customHeader
           ELSE /\ customHeader' = IF client.header # "nil" THEN h ELSE customHeader
                /\ IF client.RequestCallback = "nil"
                       THEN built' = panicRequestCallback([b2 EXCEPT !.seen = h])
                       ELSE built' = returnRequest(
                                [b2 EXCEPT !.intercepted = TRUE, !.seen = h], ret, NoErr)
    /\ UNCHANGED <<probe, client, calls, granted, transportCalls>>

\* the caller takes the outcome of NewRequest
TakeRequest ==
    /\ built.outcome # "none"
    /\ built' = NoBuilt
    /\ UNCHANGED <<probe, client, customHeader, calls, granted, transportCalls>>

----------------------------------------------------------------------------
(* Response bodies: io.ReadCloser values of one Do call *)

\* the streams of one call: the transport's body, the two clones drainBody
\* returns, a clone a ResponseCallback puts in place of the body, the body of
\* another response a ResponseCallback returns, and the http.NoBody sentinel
StreamIds == {"orig", "r1", "r2", "cb", "ob", "NoBody"}

\* network streams fail to read once closed; ioutil.NopCloser and http.NoBody
\* have a Close that does nothing
NetStreams == {"orig", "ob"}

\* bodies of at most MaxBody bytes; byte i of a body has the value i
DataSet == {[i \in 1..n |-> i] : n \in 0..MaxBody}

OtherData == <<1>>

FreshStreams == [s \in StreamIds |-> [pos |-> 0, closes |-> 0]]

\* the bytes behind a stream
content(d, s) ==
    IF s = "orig" THEN d.data
    ELSE IF s \in {"r1", "r2", "cb"} THEN d.buf
    ELSE IF s = "ob" THEN OtherData
    ELSE <<>>

\* the bytes of a stream from its read position on
rest(d, s) == SubSeq(content(d, s), d.streams[s].pos + 1, Len(content(d, s)))

\* the error reading s to its end runs into, NoErr when it ends in EOF
readError(d, s) ==
    IF s \in NetStreams /\ d.streams[s].closes > 0 THEN <<"http: read on closed response body">>
    ELSE IF s = "orig" /\ d.readErr THEN <<"unexpected EOF">>
    ELSE NoErr

\* ioutil.ReadAll(s): the bytes and the error; a closed network stream yields nothing
ReadAll(d, s) ==
    [bytes |-> IF s \in NetStreams /\ d.streams[s].closes > 0 THEN <<>> ELSE rest(d, s),
     err |-> readError(d, s)]

\* the call after k more bytes of s were read
consume(d, s, k) ==
    IF s \in NetStreams /\ d.streams[s].closes > 0 THEN d
    ELSE [d EXCEPT !.streams[s].pos = @ + k]

\* the call after s was read to its end
consumeAll(d, s) == consume(d, s, Len(rest(d, s)))

\* the error of s.Close()
closeError(d, s) == IF s = "orig" /\ d.closeErr THEN <<"close failed">> ELSE NoErr

\* the call after s.Close()
close(d, s) == [d EXCEPT !.streams[s].closes = @ + 1]

----------------------------------------------------------------------------
(* drainBody: httpclient.go 413-426 *)

\* drainBody(b): the two streams returned, the error, and the call afterwards
drainBodyShared(d, b) ==
    IF b = "NoBody"
        THEN [r1 |-> "NoBody", r2 |-> "NoBody", err |-> NoErr, d |-> d]
    ELSE LET got == ReadAll(d, b)
             d1 == consumeAll(d, b)
             d2 == close(d1, b)
         IN  IF got.err # NoErr
                 THEN [r1 |-> "nil", r2 |-> b, err |-> got.err, d |-> d1]
             ELSE IF closeError(d1, b) # NoErr
                 THEN [r1 |-> "nil", r2 |-> b, err |-> closeError(d1, b), d |-> d2]
             ELSE [r1 |-> "r1", r2 |-> "r1", err |-> NoErr,
                   d |-> [d2 EXCEPT !.buf = got.bytes]]
drainBody(d, b) ==
    IF b = "NoBody"
        THEN [r1 |-> "NoBody", r2 |-> "NoBody", err |-> NoErr, d |-> d]
    ELSE LET got == ReadAll(d, b)
             d1 == consumeAll(d, b)
             d2 == close(d1, b)
         IN  IF got.err # NoErr
                 THEN [r1 |-> "nil", r2 |-> b, err |-> got.err, d |-> d1]
             ELSE IF closeError(d1, b) # NoErr
                 THEN [r1 |-> "nil", r2 |-> b, err |-> closeError(d1, b), d |-> d2]
             ELSE [r1 |-> "r1", r2 |-> "r2", err |-> NoErr,
                   d |-> [d2 EXCEPT !.buf = got.bytes]]

----------------------------------------------------------------------------
(* The default codec, response side: httpclient.go 348-391 *)

\* targets handed to Do: none, an io.Writer, a pointer to a struct or a number,
\* a pointer to a string
Targets == {"nil", "writer", "struct", "string"}

\* unmarshal is the default unmarshaler, reading from stream r of call d;
\* decodes tells whether the bytes are a document of the JSON or YAML codec.
\* The error, the call afterwards, and what the target was given: the bytes
\* written to an io.Writer or stored in a string, <<"decoded">> for a document
unmarshalWriterDispatched(d, r, v, mediaType, decodes) ==
    IF v = "nil" THEN [err |-> NoErr, d |-> d, out |-> <<>>]
    ELSE IF mediaType \in {ContentTypeJSON, ContentTypeYAML}
        THEN [err |-> IF readError(d, r) # NoErr THEN readError(d, r)
                      ELSE IF decodes THEN NoErr ELSE <<"cannot decode">>,
              d |-> consumeAll(d, r),
              out |-> IF readError(d, r) = NoErr /\ decodes THEN <<"decoded">> ELSE <<>>]
    ELSE IF mediaType = ContentTypeText
        THEN IF v = "string"
                 THEN [err |-> IF readError(d, r) # NoErr
                                   THEN Wrap(readError(d, r), "read into buffer")
                                   ELSE NoErr,
                       d |-> consumeAll(d, r),
                       out |-> IF readError(d, r) = NoErr THEN ReadAll(d, r).bytes ELSE <<>>]
                 ELSE [err |-> <<"target type is not string">>, d |-> d, out |-> <<>>]
    ELSE [err |-> Wrap(ErrUnknownContentType, mediaType), d |-> d, out |-> <<>>]
unmarshal(d, r, v, mediaType, decodes) ==
    IF v = "nil" THEN [err |-> NoErr, d |-> d, out |-> <<>>]
    ELSE IF v = "writer"
        THEN [err |-> readError(d, r), d |-> consumeAll(d, r), out |-> ReadAll(d, r).bytes]
    ELSE IF mediaType \in {ContentTypeJSON, ContentTypeYAML}
        THEN [err |-> IF readError(d, r) # NoErr THEN readError(d, r)
                      ELSE IF decodes THEN NoErr ELSE <<"cannot decode">>,
              d |-> consumeAll(d, r),
              out |-> IF readError(d, r) = NoErr /\ decodes THEN <<"decoded">> ELSE <<>>]
    ELSE IF mediaType = ContentTypeText
        THEN IF v = "string"
                 THEN [err |-> IF readError(d, r) # NoErr
                                   THEN Wrap(readError(d, r), "read into buffer")
                                   ELSE NoErr,
                       d |-> consumeAll(d, r),
                       out |-> IF readError(d, r) = NoErr THEN ReadAll(d, r).bytes ELSE <<>>]
                 ELSE [err |-> <<"target type is not string">>, d |-> d, out |-> <<>>]
    ELSE [err |-> Wrap(ErrUnknownContentType, mediaType), d |-> d, out |-> <<>>]

----------------------------------------------------------------------------
(* responseCallback, the default ResponseCallback: httpclient.go 400-405 *)

StatusCodes == {199, 200, 299, 300}
StatusLines == {"200 OK", "404 Not Found"}

\* the lowest and the highest status code that is no error
StatusOKMin == 200
StatusOKMax == 299

\* the response returned and the error
responseCallbackExclusive(statusCode, status) ==
    IF statusCode >= StatusOKMin /\ statusCode < StatusOKMax
        THEN [resp |-> "T", err |-> NoErr]
        ELSE [resp |-> "T", err |-> <<status>>]
responseCallback(statusCode, status) ==
    IF statusCode >= StatusOKMin /\ statusCode <= StatusOKMax
        THEN [resp |-> "T", err |-> NoErr]
        ELSE [resp |-> "T", err |-> <<status>>]

----------------------------------------------------------------------------
(* Do: httpclient.go 297-345 *)

\* the callers of Do
Calls == {"c1", "c2"}

\* the response objects of a call: T is the one the transport returned, O another
\* one a ResponseCallback may return in its place
Responses == {"T", "O"}

\* a caller that is not inside Do
NoCall ==
    [pc |-> "idle", ctx |-> "live", v |-> "nil",
     waitErr |-> FALSE, sendErr |-> FALSE, rcErr |-> FALSE, unmErr |-> FALSE,
     data |-> <<>>, readErr |-> FALSE, closeErr |-> FALSE, statusCode |-> 0, status |-> "",
     tbody |-> "nil", resp |-> "none", err |-> NoErr, save |-> "nil", deferred |-> "none",
     Body |-> [r \in Responses |-> IF r = "O" THEN "ob" ELSE "nil"],
     buf |-> <<>>, streams |-> FreshStreams, drainErr |-> NoErr,
     rcRet |-> "none", rcRetErr |-> NoErr, unmRetErr |-> NoErr, mediaType |-> "",
     respContentType |-> "",
     deferPanic |-> FALSE, outcome |-> "none", retResp |-> "nil", retErr |-> NoErr,
     stages |-> <<>>]

\* the stage a call has passed is appended to its stages
stage(d, name) == [d EXCEPT !.stages = Append(@, name)]

\* deferFunc of lines 311-315: close the body of the response resp points to
deferCloseSkipped(d) == d
deferClose(d) ==
    IF d.resp = "nil" THEN [d EXCEPT !.deferPanic = TRUE]
    ELSE LET s == d.Body[d.resp]
             d1 == close(d, s)
         IN  IF closeError(d, s) = NoErr THEN [d1 EXCEPT !.err = NoErr] ELSE d1

\* deferFunc of lines 320-322: put the saved clone back on the response
deferRestore(d) ==
    IF d.resp = "nil" THEN [d EXCEPT !.deferPanic = TRUE]
    ELSE [d EXCEPT !.Body[d.resp] = d.save]

\* the deferred call of line 325, run when Do returns or panics
runDeferred(d) ==
    IF d.deferred = "close" THEN deferClose(d)
    ELSE IF d.deferred = "restore" THEN deferRestore(d)
    ELSE d

\* return resp, err: the results are set, then the deferred call runs; a panic
\* of the deferred call replaces the return
returns(d, r, e) ==
    LET d1 == runDeferred([d EXCEPT !.retResp = r, !.retErr = e])
    IN  stage([d1 EXCEPT !.pc = "done",
                         !.outcome = IF d1.deferPanic THEN "panic" ELSE "returned"], "DONE")

\* panic(msg): the deferred call runs, then the panic leaves Do
panicsAsError(d, msg) == returns(d, d.resp, <<msg>>)
panics(d, msg) ==
    LET d1 == runDeferred(d)
    IN  stage([d1 EXCEPT !.pc = "done", !.outcome = "panic", !.err = <<msg>>], "DONE")

\* Do is entered; lines 300-304 skip the rate gate when no limiter is configured
DoCallUngated(d) ==
    /\ calls[d].pc = "idle"
    /\ calls' = [calls EXCEPT ![d] = stage([NoCall EXCEPT !.pc = "send"], "ADMITTED")]
    /\ UNCHANGED <<probe, client, customHeader, built, granted, transportCalls>>
DoCall(d) ==
    /\ calls[d].pc = "idle"
    /\ calls' = [calls EXCEPT ![d] =
            IF client.limiter
                THEN [NoCall EXCEPT !.pc = "gate"]
                ELSE stage([NoCall EXCEPT !.pc = "send"], "ADMITTED")]
    /\ UNCHANGED <<probe, client, customHeader, built, granted, transportCalls>>

\* the caller cancels the context of a call suspended at the gate or in the transport
Cancel(d) ==
    /\ calls[d].pc \in {"gate", "send"}
    /\ calls[d].ctx = "live"
    /\ calls' = [calls EXCEPT ![d].ctx = "cancelled"]
    /\ UNCHANGED <<probe, client, customHeader, built, granted, transportCalls>>

\* line 301: limiter.Wait(ctx) returns nil
WaitOK(d) ==
    /\ calls[d].pc = "gate"
    /\ calls[d].ctx = "live"
    /\ calls' = [calls EXCEPT ![d] = stage([@ EXCEPT !.pc = "send"], "ADMITTED")]
    /\ granted' = granted + 1
    /\ UNCHANGED <<probe, client, customHeader, built, transportCalls>>

\* lines 301-303 when Wait returns an error
throttledProceeds(d) == [d EXCEPT !.waitErr = TRUE, !.pc = "send"]
throttled(d) == returns([d EXCEPT !.waitErr = TRUE], "nil", ErrTooManyRequest)

\* line 301: limiter.Wait(ctx) returns an error: the context is done, or the
\* limiter cannot grant the token
WaitErrIgnoresContext(d) ==
    /\ calls[d].pc = "gate"
    /\ calls[d].ctx = "live"
    /\ calls' = [calls EXCEPT ![d] = throttled(@)]
    /\ UNCHANGED <<probe, client, customHeader, built, granted, transportCalls>>
WaitErr(d) ==
    /\ calls[d].pc = "gate"
    /\ calls' = [calls EXCEPT ![d] = throttled(@)]
    /\ UNCHANGED <<probe, client, customHeader, built, granted, transportCalls>>

\* lines 307-309: Do returns what the transport returned
transportFailedDropsResponse(d) == returns(d, "nil", d.err)
transportFailed(d) == returns(d, d.resp, d.err)

\* lines 306-309: c.client.Do returns an error, with or without a response; the
\* body of such a response is already closed
TransportErr(d, withResp) ==
    /\ calls[d].pc = "send"
    /\ LET d1 == stage([calls[d] EXCEPT !.sendErr = TRUE,
                            !.resp = IF withResp THEN "T" ELSE "nil",
                            !.Body["T"] = IF withResp THEN "orig" ELSE "nil",
                            !.tbody = IF withResp THEN "orig" ELSE "nil",
                            !.streams["orig"].closes = IF withResp THEN 1 ELSE 0,
                            !.err = IF calls[d].ctx = "cancelled"
                                        THEN <<"context canceled">>
                                        ELSE <<"transport failed">>], "SENT")
       IN  calls' = [calls EXCEPT ![d] = transportFailed(d1)]
    /\ transportCalls' = transportCalls + 1
    /\ UNCHANGED <<probe, client, customHeader, built, granted>>

\* the bodies the transport may hand back: http.NoBody, or a network stream
\* whose Read or Close may fail
TransportBodies ==
    [kind : {"net"}, data : DataSet, readErr : BOOLEAN, closeErr : BOOLEAN]
        \cup [kind : {"NoBody"}, data : {<<>>}, readErr : {FALSE}, closeErr : {FALSE}]

\* line 306: c.client.Do returns a response and no error
TransportOK(d, body, statusCode, status) ==
    /\ calls[d].pc = "send"
    /\ calls[d].ctx = "live"
    /\ calls' = [calls EXCEPT ![d] =
            stage([@ EXCEPT !.pc = "manage", !.resp = "T",
                            !.Body["T"] = IF body.kind = "NoBody" THEN "NoBody" ELSE "orig",
                            !.tbody = IF body.kind = "NoBody" THEN "NoBody" ELSE "orig",
                            !.data = body.data, !.readErr = body.readErr,
                            !.closeErr = body.closeErr,
                            !.statusCode = statusCode, !.status = status], "SENT")]
    /\ transportCalls' = transportCalls + 1
    /\ UNCHANGED <<probe, client, customHeader, built, granted>>

\* lines 311-325: the release action is chosen and deferred; with
\* keepResponseBody the body is split first and the error of drainBody dropped
bodyManaged(c, d) ==
    IF c.keepResponseBody
        THEN LET r == drainBody(d, d.Body[d.resp])
             IN  [r.d EXCEPT !.save = r.r1, !.Body[d.resp] = r.r2, !.drainErr = r.err,
                             !.deferred = "restore"]
        ELSE [d EXCEPT !.deferred = "close"]

BodyManage(d) ==
    /\ calls[d].pc = "manage"
    /\ calls' = [calls EXCEPT ![d] =
            stage([bodyManaged(client, @) EXCEPT !.pc = "intercept"], "BODY-MANAGED")]
    /\ UNCHANGED <<probe, client, customHeader, built, granted, transportCalls>>

\* what a ResponseCallback set by the application may do: return the response
\* it was given ("same"), replace its body by a clone as the package's example
\* callback does ("drain"), return another response ("other") or none ("nil"),
\* each with or without an error
CustomResponseCallbackResults ==
    [kind : {"same", "drain", "other", "nil"}, err : {NoErr, <<"rejected">>}]

\* a stream that reads to its end and closes without error
healthy(d, s) == readError(d, s) = NoErr /\ closeError(d, s) = NoErr

\* the call after a custom ResponseCallback ran
customResponseCallback(d, rc) ==
    LET s == d.Body[d.resp]
        d1 == IF rc.kind = "drain" /\ s # "NoBody"
                  THEN [close(consumeAll(d, s), s) EXCEPT
                            !.buf = rest(d, s), !.Body[d.resp] = "cb"]
                  ELSE d
    IN  [d1 EXCEPT !.resp = IF rc.kind = "other" THEN "O"
                            ELSE IF rc.kind = "nil" THEN "nil" ELSE @,
                   !.err = rc.err]

\* lines 332-334: an error of the ResponseCallback ends Do
interceptedFallsThrough(d) == [d EXCEPT !.pc = "decode"]
intercepted(d) ==
    IF d.err # NoErr THEN returns(d, d.resp, d.err) ELSE [d EXCEPT !.pc = "decode"]

\* lines 327-334
Intercept(d, rc) ==
    /\ calls[d].pc = "intercept"
    /\ rc.kind = "drain" => healthy(calls[d], calls[d].Body[calls[d].resp])
    \* rc is read by a custom ResponseCallback only
    /\ client.ResponseCallback # "custom" => rc = [kind |-> "same", err |-> NoErr]
    /\ LET d0 == calls[d]
           dflt == responseCallback(d0.statusCode, d0.status)
           d1 == IF client.ResponseCallback = "default"
                     THEN [d0 EXCEPT !.resp = dflt.resp, !.err = dflt.err, !.rcRet = "same"]
                     ELSE [customResponseCallback(d0, rc) EXCEPT !.rcRet = rc.kind]
           d2 == stage([d1 EXCEPT !.rcErr = (d1.err # NoErr), !.rcRetErr = d1.err],
                       "INTERCEPTED")
       IN  calls' = [calls EXCEPT ![d] =
               IF client.ResponseCallback = "nil" THEN panics(d0, "ResponseCallback is nil")
               ELSE intercepted(d2)]
    /\ UNCHANGED <<probe, client, customHeader, built, granted, transportCalls>>

\* the Content-Type header a response may have when the Unmarshaler is called:
\* what the server sent, or what the ResponseCallback set
ResponseContentTypes == {ContentTypeJSON, ContentTypeUnknown}

\* line 340: the content type handed to the Unmarshaler; hct is the
\* Content-Type header of the response
unmarshalMediaTypeOfResponse(c, hct) == hct
unmarshalMediaType(c, hct) == c.ContentType

\* lines 336-344; v is the target given to Do, k the bytes a custom Unmarshaler
\* reads and uerr the error it returns
Decode(d, v, decodes, k, uerr) ==
    /\ calls[d].pc = "decode"
    /\ \E hct \in ResponseContentTypes :
        LET d0 == [calls[d] EXCEPT !.v = v]
            r == d0.Body[d0.resp]
            mediaType == unmarshalMediaType(client, hct)
            u == IF client.Unmarshaler = "default"
                     THEN unmarshal(d0, r, v, mediaType, decodes)
                     ELSE [err |-> uerr, d |-> consume(d0, r, k), out |-> <<>>]
            d1 == stage([u.d EXCEPT !.err = u.err, !.unmErr = (u.err # NoErr),
                                    !.unmRetErr = u.err,
                                    !.mediaType = mediaType,
                                    !.respContentType = hct], "DECODED")
        IN  /\ d0.resp # "nil" /\ client.Unmarshaler = "custom" => k <= Len(rest(d0, r))
            \* decodes is read by the default Unmarshaler only, k and uerr by a custom one
            /\ client.Unmarshaler # "default" => decodes
            /\ client.Unmarshaler # "custom" \/ d0.resp = "nil" => k = 0 /\ uerr = NoErr
            \* a call that panics before line 340 reads no header
            /\ client.Unmarshaler = "nil" \/ d0.resp = "nil" => hct = ContentTypeJSON
            /\ calls' = [calls EXCEPT ![d] =
                IF client.Unmarshaler = "nil" THEN panics(d0, "Unmarshaler is nil")
                ELSE IF d0.resp = "nil" THEN panics(d0, "nil pointer dereference")
                ELSE returns(d1, d1.resp, d1.err)]
    /\ UNCHANGED <<probe, client, customHeader, built, granted, transportCalls>>

----------------------------------------------------------------------------
(* The client configurations: New with its options (httpclient.go 124-217),  *)
(* and the exported fields the application may assign afterwards             *)

\* the client New(baseURL) returns: lines 130-140
DefaultClient ==
    [client |-> "timeout30s", BaseURL |-> "https://hostname.domain",
     limiter |-> FALSE, ContentType |-> ContentTypeJSON, username |-> "", password |-> "",
     keepResponseBody |-> FALSE, header |-> "nil",
     Marshaler |-> "default", Unmarshaler |-> "default",
     RequestCallback |-> "default", ResponseCallback |-> "default"]

\* clients that differ in what Do reads
DoClients ==
    {[DefaultClient EXCEPT !.limiter = l, !.keepResponseBody = k, !.ContentType = ct,
                           !.ResponseCallback = rc, !.Unmarshaler = u] :
        l \in BOOLEAN, k \in BOOLEAN, ct \in ContentTypes, rc \in FuncValues, u \in FuncValues}

\* clients that differ in what NewRequest reads
RequestClients ==
    {[DefaultClient EXCEPT !.ContentType = ct, !.username = un, !.password = pw, !.header = h,
                           !.Marshaler = m, !.RequestCallback = rc] :
        ct \in ContentTypes, un \in {"", "user1"}, pw \in {"", "123456"},
        h \in {"nil", "set"}, m \in FuncValues, rc \in FuncValues}

\* the header sets handed to WithHeader
CustomHeaders ==
    {EmptyHeader,
     [EmptyHeader EXCEPT !["X-Requested-By"] = <<"test">>],
     [EmptyHeader EXCEPT !["Authorization"] = <<"fake">>],
     [EmptyHeader EXCEPT !["Content-Type"] = <<"text/html">>],
     [EmptyHeader EXCEPT !["Accept"] = <<"text/html">>]}

----------------------------------------------------------------------------
(* New and the options: httpclient.go 122-217 *)

\* most options one New call is given
MaxOpts == 2

\* no function of the package has been called
NoProbe == [fn |-> "none"]

\* the nil *Client
NilClient == [nil |-> TRUE]

\* the base addresses: one that url.Parse accepts and one it rejects
BaseURLs == {"https://hostname.domain", "https://show you how deep.domain"}
baseURLParses(u) == u = "https://hostname.domain"

\* the option values: constructor and argument
Options ==
    {[name |-> "WithUsername", arg |-> a] : a \in {"", "user1", "user2"}}
    \cup {[name |-> "WithPassword", arg |-> a] : a \in {"", "123456"}}
    \cup {[name |-> "WithContentType", arg |-> a] : a \in {"", ContentTypeYAML, ContentTypeText}}
    \cup {[name |-> "WithHTTPClient", arg |-> a] : a \in {"nil", "custom"}}
    \cup {[name |-> "WithRateLimiter", arg |-> TRUE],
          [name |-> "WithHeader", arg |-> "set"],
          [name |-> "WithKeepResponseBody", arg |-> TRUE]}

WithPassword(c, p) ==
    IF p = "" THEN [c |-> c, err |-> <<"password cannot be empty">>]
              ELSE [c |-> [c EXCEPT !.password = p], err |-> NoErr]

WithUsername(c, u) ==
    IF u = "" THEN [c |-> c, err |-> <<"username cannot be empty">>]
              ELSE [c |-> [c EXCEPT !.username = u], err |-> NoErr]

WithHTTPClient(cli, c) == [c |-> [cli EXCEPT !.client = c], err |-> NoErr]

WithRateLimiter(cli, l) == [c |-> [cli EXCEPT !.limiter = l], err |-> NoErr]

WithContentType(c, ct) ==
    IF ct = "" THEN [c |-> c, err |-> <<"content type cannot be empty">>]
               ELSE [c |-> [c EXCEPT !.ContentType = ct], err |-> NoErr]

WithHeader(c, header) == [c |-> [c EXCEPT !.header = header], err |-> NoErr]

WithKeepResponseBody(c) == [c |-> [c EXCEPT !.keepResponseBody = TRUE], err |-> NoErr]

\* opt(c): the option function applied to the client under construction
applyOpt(c, opt) ==
    CASE opt.name = "WithUsername" -> WithUsername(c, opt.arg)
      [] opt.name = "WithPassword" -> WithPassword(c, opt.arg)
      [] opt.name = "WithContentType" -> WithContentType(c, opt.arg)
      [] opt.name = "WithHTTPClient" -> WithHTTPClient(c, opt.arg)
      [] opt.name = "WithRateLimiter" -> WithRateLimiter(c, opt.arg)
      [] opt.name = "WithHeader" -> WithHeader(c, opt.arg)
      [] opt.name = "WithKeepResponseBody" -> WithKeepResponseBody(c)

\* the loop of lines 142-146 from option i on; applied counts the option
\* functions that were called
RECURSIVE applyOptsPastError(_, _, _)
applyOptsPastError(c, opts, i) ==
    IF i > Len(opts) THEN [c |-> c, err |-> NoErr, applied |-> Len(opts)]
    ELSE LET r == applyOpt(c, opts[i])
             t == applyOptsPastError(r.c, opts, i + 1)
         IN  IF r.err # NoErr THEN [c |-> NilClient, err |-> r.err, applied |-> t.applied]
             ELSE t
RECURSIVE applyOpts(_, _, _)
applyOpts(c, opts, i) ==
    IF i > Len(opts) THEN [c |-> c, err |-> NoErr, applied |-> Len(opts)]
    ELSE LET r == applyOpt(c, opts[i])
         IN  IF r.err # NoErr THEN [c |-> NilClient, err |-> r.err, applied |-> i]
             ELSE applyOpts(r.c, opts, i + 1)

\* New(baseURL, opts...): the client or nil, the error, and the number of
\* option functions called
new(baseURL, opts) ==
    IF ~baseURLParses(baseURL)
        THEN [c |-> NilClient, err |-> <<"parse", baseURL>>, applied |-> 0]
        ELSE applyOpts([DefaultClient EXCEPT !.BaseURL = baseURL], opts, 1)

\* the zero Client: what the application holds before New
ZeroClient ==
    [client |-> "nil", BaseURL |-> "nil", limiter |-> FALSE, ContentType |-> "",
     username |-> "", password |-> "", keepResponseBody |-> FALSE, header |-> "nil",
     Marshaler |-> "nil", Unmarshaler |-> "nil",
     RequestCallback |-> "nil", ResponseCallback |-> "nil"]

\* c, err := New(baseURL, opts...)
New(baseURL, opts) ==
    /\ probe.fn = "none"
    /\ LET r == new(baseURL, opts)
       IN  /\ probe' = [fn |-> "New", baseURL |-> baseURL, opts |-> opts,
                        c |-> r.c, err |-> r.err, applied |-> r.applied]
           /\ client' = IF r.c # NilClient THEN r.c ELSE client
    /\ UNCHANGED <<customHeader, built, calls, granted, transportCalls>>

----------------------------------------------------------------------------
(* Calls of the default codec and of drainBody by themselves *)

\* content-type identifiers: the three the codec knows, and three it does not
MediaTypes == ContentTypes \cup {"text/html", ""}

\* the streams handed to unmarshal and to drainBody
Bodies == TransportBodies

\* the heap a call on body starts from, and the stream that is its argument
heapOf(body) ==
    [NoCall EXCEPT !.data = body.data, !.readErr = body.readErr, !.closeErr = body.closeErr]
argOf(body) == IF body.kind = "NoBody" THEN "NoBody" ELSE "orig"

\* contentType, err := marshal(buf, v, mediaType)
CallMarshal(v, mediaType) ==
    /\ probe.fn = "none" /\ built.outcome = "none"
    /\ LET m == marshal(v, mediaType)
       IN  probe' = [fn |-> "marshal", v |-> v, mediaType |-> mediaType,
                     ct |-> m.ct, out |-> m.out, err |-> m.err]
    /\ UNCHANGED <<client, customHeader, built, calls, granted, transportCalls>>

\* err := unmarshal(body, v, mediaType)
CallUnmarshal(body, v, mediaType, decodes) ==
    /\ probe.fn = "none" /\ built.outcome = "none"
    \* unmarshal never closes, and only the JSON and YAML codecs decode
    /\ ~body.closeErr
    /\ ~(v \in {"struct", "string"} /\ mediaType \in {ContentTypeJSON, ContentTypeYAML})
           => decodes
    /\ LET u == unmarshal(heapOf(body), argOf(body), v, mediaType, decodes)
       IN  probe' = [fn |-> "unmarshal", r |-> argOf(body), data |-> body.data,
                     readErr |-> body.readErr, v |-> v, mediaType |-> mediaType,
                     err |-> u.err, d |-> u.d, out |-> u.out]
    /\ UNCHANGED <<client, customHeader, built, calls, granted, transportCalls>>

\* r1, r2, err := drainBody(body); got is what has been read from r1 and from r2
CallDrainBody(body) ==
    /\ probe.fn = "none" /\ built.outcome = "none"
    /\ LET res == drainBody(heapOf(body), argOf(body))
       IN  probe' = [fn |-> "drainBody", b |-> argOf(body), data |-> body.data,
                     readErr |-> body.readErr, closeErr |-> body.closeErr,
                     r1 |-> res.r1, r2 |-> res.r2, err |-> res.err, d |-> res.d,
                     got |-> <<<<>>, <<>>>>, eof |-> <<FALSE, FALSE>>]
    /\ UNCHANGED <<client, customHeader, built, calls, granted, transportCalls>>

\* one Read of up to k bytes on the first (h = 1) or the second (h = 2) stream
\* drainBody returned; a Read at the end of the stream returns io.EOF
ReadClone(h, k) ==
    /\ probe.fn = "drainBody" /\ probe.err = NoErr
    /\ ~probe.eof[h]
    /\ LET s == IF h = 1 THEN probe.r1 ELSE probe.r2
           left == rest(probe.d, s)
       IN  IF left = <<>>
               THEN k = 1 /\ probe' = [probe EXCEPT !.eof[h] = TRUE]
               ELSE /\ k <= Len(left)
                    /\ probe' = [probe EXCEPT !.got[h] = @ \o SubSeq(left, 1, k),
                                              !.d = consume(@, s, k)]
    /\ UNCHANGED <<client, customHeader, built, calls, granted, transportCalls>>

----------------------------------------------------------------------------
(* QueryOptions: httpclient.go 96-121 *)

\* most key=value pairs in the query of a URL string handed to QueryOptions
MaxQuery == 2

\* the query keys, in the order url.Values.Encode sorts them
QueryKeys == <<"a", "b", "page", "search">>

\* key=value pairs as they are written in a URL string
QueryPairs == {<<"a", "1">>, <<"b", "1">>, <<"a", "2">>, <<"page", "7">>}

\* the URL strings: a host and the pairs of the query in the order written;
\* url.Parse rejects a host with a space in it
QueryURLs ==
    [host : {"hostname.domain", "show you how deep.domain"},
     query : UNION {[1..n -> QueryPairs] : n \in 0..MaxQuery}]
queryURLParses(u) == u.host = "hostname.domain"

\* url.QueryEscape of a value, and its inverse
QueryEscape(v) == IF v = "name=testHost" THEN "name%3DtestHost" ELSE v
QueryUnescape(v) == IF v = "name%3DtestHost" THEN "name=testHost" ELSE v

\* origURL.Query(): the values of each key, in the order written
Query(u) ==
    [k \in {QueryKeys[i] : i \in 1..Len(QueryKeys)} |->
        LET ps == SelectSeq(u.query, LAMBDA p : p[1] = k)
        IN  [i \in 1..Len(ps) |-> QueryUnescape(ps[i][2])]]

\* url.Values.Encode(): the keys in sorted order, each with its values
RECURSIVE encodeFrom(_, _)
encodeFrom(vs, i) ==
    IF i > Len(QueryKeys) THEN <<>>
    ELSE [j \in 1..Len(vs[QueryKeys[i]]) |-> <<QueryKeys[i], QueryEscape(vs[QueryKeys[i]][j])>>]
             \o encodeFrom(vs, i + 1)
Encode(vs) == encodeFrom(vs, 1)

\* the options values: the untyped nil, a nil *options, an options struct, a
\* pointer to one, and the number 42
QueryOpts == {"nil", "nilptr", "options", "ptr", "int"}

NoValues == [k \in {QueryKeys[i] : i \in 1..Len(QueryKeys)} |-> <<>>]

\* query.Values(opt): the values of the tagged fields, or an error for what
\* is no struct; nil and a nil pointer give no values
queryValues(opt) ==
    IF opt \in {"nil", "nilptr"} THEN [values |-> NoValues, err |-> NoErr]
    ELSE IF opt \in {"options", "ptr"}
        THEN [values |-> [NoValues EXCEPT !["page"] = <<"1">>,
                                          !["search"] = <<"name=testHost">>],
              err |-> NoErr]
    ELSE [values |-> NoValues, err |-> <<"query: Values() expects struct input. Got int">>]

\* QueryOptions(u, opt): the string returned and the error
QueryOptionsParseFirst(u, opt) ==
    IF ~queryURLParses(u) THEN [u |-> u, err |-> <<"parse", u.host>>]
    ELSE IF opt = "nilptr" THEN [u |-> u, err |-> NoErr]
    ELSE LET newValues == queryValues(opt)
             origValues == Query(u)
             merged == [k \in DOMAIN origValues |->
                           IF newValues.values[k] # <<>> THEN newValues.values[k]
                                                         ELSE origValues[k]]
         IN  IF newValues.err # NoErr THEN [u |-> u, err |-> newValues.err]
             ELSE [u |-> [u EXCEPT !.query = Encode(merged)], err |-> NoErr]
QueryOptionsEncodedOnError(u, opt) ==
    IF opt = "nilptr" THEN [u |-> u, err |-> NoErr]
    ELSE IF ~queryURLParses(u) THEN [u |-> u, err |-> <<"parse", u.host>>]
    ELSE LET newValues == queryValues(opt)
             origValues == Query(u)
             merged == [k \in DOMAIN origValues |->
                           IF newValues.values[k] # <<>> THEN newValues.values[k]
                                                         ELSE origValues[k]]
         IN  [u |-> [u EXCEPT !.query = Encode(merged)], err |-> newValues.err]
QueryOptions(u, opt) ==
    IF opt = "nilptr" THEN [u |-> u, err |-> NoErr]
    ELSE IF ~queryURLParses(u) THEN [u |-> u, err |-> <<"parse", u.host>>]
    ELSE LET newValues == queryValues(opt)
             origValues == Query(u)
             merged == [k \in DOMAIN origValues |->
                           IF newValues.values[k] # <<>> THEN newValues.values[k]
                                                         ELSE origValues[k]]
         IN  IF newValues.err # NoErr THEN [u |-> u, err |-> newValues.err]
             ELSE [u |-> [u EXCEPT !.query = Encode(merged)], err |-> NoErr]

\* s, err := QueryOptions(u, opt)
CallQueryOptions(u, opt) ==
    /\ probe.fn = "none"
    /\ LET r == QueryOptions(u, opt)
       IN  probe' = [fn |-> "QueryOptions", u |-> u, opt |-> opt, ret |-> r.u, err |-> r.err]
    /\ UNCHANGED <<client, customHeader, built, calls, granted, transportCalls>>

----------------------------------------------------------------------------
(* Specifications *)

\* one caller dispatches one request
Caller == "c1"

Init ==
    /\ client \in DoClients
    /\ customHeader = EmptyHeader
    /\ built = NoBuilt
    /\ calls = [d \in Calls |-> NoCall]
    /\ granted = 0
    /\ transportCalls = 0
    /\ probe = NoProbe

Next ==
    \/ DoCall(Caller)
    \/ Cancel(Caller)
    \/ WaitOK(Caller)
    \/ WaitErr(Caller)
    \/ \E withResp \in BOOLEAN : TransportErr(Caller, withResp)
    \/ \E body \in TransportBodies, statusCode \in StatusCodes, status \in StatusLines :
           TransportOK(Caller, body, statusCode, status)
    \/ BodyManage(Caller)
    \/ \E rc \in CustomResponseCallbackResults : Intercept(Caller, rc)
    \/ \E v \in Targets, decodes \in BOOLEAN, k \in 0..MaxBody,
          uerr \in {NoErr, <<"custom unmarshal failed">>} :
           Decode(Caller, v, decodes, k, uerr)

Spec == Init /\ [][Next]_vars

\* the application constructs a client
OptionLists == UNION {[1..n -> Options] : n \in 0..MaxOpts}

InitNew ==
    /\ client = ZeroClient
    /\ customHeader = [EmptyHeader EXCEPT !["X-Requested-By"] = <<"test">>]
    /\ built = NoBuilt
    /\ calls = [d \in Calls |-> NoCall]
    /\ granted = 0
    /\ transportCalls = 0
    /\ probe = NoProbe

NextNew ==
    \E baseURL \in BaseURLs, opts \in OptionLists : New(baseURL, opts)

SpecNew == InitNew /\ [][NextNew]_vars

\* clients with the default codec: any ContentType, with or without a custom
\* header set
CodecClients ==
    {[DefaultClient EXCEPT !.ContentType = ct, !.header = h] :
        ct \in MediaTypes, h \in {"nil", "set"}}

\* the application calls the default codec, drainBody, or NewRequest on a
\* client that has the default codec
InitCodec ==
    /\ client \in CodecClients
    /\ customHeader \in (IF client.header = "nil" THEN {EmptyHeader} ELSE CustomHeaders)
    /\ built = NoBuilt
    /\ calls = [d \in Calls |-> NoCall]
    /\ granted = 0
    /\ transportCalls = 0
    /\ probe = NoProbe

NextCodec ==
    \/ \E v \in Payloads, mediaType \in MediaTypes : CallMarshal(v, mediaType)
    \/ \E body \in Bodies, v \in Targets, mediaType \in MediaTypes, decodes \in BOOLEAN :
           CallUnmarshal(body, v, mediaType, decodes)
    \/ \E body \in Bodies : CallDrainBody(body)
    \/ \E h \in {1, 2}, k \in 1..MaxBody : ReadClone(h, k)
    \/ /\ probe.fn = "none"
       /\ \E method \in Methods, urlStr \in URLStrs, body \in Payloads :
              NewRequest(method, urlStr, body,
                         [ct |-> ContentTypeJSON, out |-> <<"custom">>, err |-> NoErr], "req")

SpecCodec == InitCodec /\ [][NextCodec]_vars

\* several callers dispatch one request each on one client, at the same time
ManyClients == {[DefaultClient EXCEPT !.limiter = l] : l \in BOOLEAN}

\* the responses of the transport in SpecMany
ManyBodies == {b \in TransportBodies : ~b.readErr /\ ~b.closeErr /\ Len(b.data) <= 1}
ManyStatusCodes == {200, 300}

InitMany ==
    /\ client \in ManyClients
    /\ customHeader = EmptyHeader
    /\ built = NoBuilt
    /\ calls = [d \in Calls |-> NoCall]
    /\ granted = 0
    /\ transportCalls = 0
    /\ probe = NoProbe

\* the steps of a call after the transport returned a response
LaterStages(d) ==
    \/ BodyManage(d)
    \/ Intercept(d, [kind |-> "same", err |-> NoErr])
    \/ \E v \in {"nil", "struct"} : Decode(d, v, TRUE, 0, NoErr)

\* a cancelled context ends limiter.Wait and c.client.Do
Unblock(d) ==
    /\ calls[d].ctx = "cancelled"
    /\ WaitErr(d) \/ \E withResp \in BOOLEAN : TransportErr(d, withResp)

NextMany ==
    \E d \in Calls :
        \/ DoCall(d)
        \/ Cancel(d)
        \/ WaitOK(d)
        \/ WaitErr(d)
        \/ \E withResp \in BOOLEAN : TransportErr(d, withResp)
        \/ \E body \in ManyBodies, statusCode \in ManyStatusCodes :
               TransportOK(d, body, statusCode, "404 Not Found")
        \/ LaterStages(d)

SpecMany == InitMany /\ [][NextMany]_vars

\* the limiter and the transport may never answer a call whose context is
\* live; a cancelled context ends the wait, and the later stages return
SpecManyFair ==
    /\ SpecMany
    /\ \A d \in Calls : WF_vars(Unblock(d)) /\ WF_vars(LaterStages(d))

\* the application calls QueryOptions
InitQuery ==
    /\ client = DefaultClient
    /\ customHeader = EmptyHeader
    /\ built = NoBuilt
    /\ calls = [d \in Calls |-> NoCall]
    /\ granted = 0
    /\ transportCalls = 0
    /\ probe = NoProbe

NextQuery ==
    \E u \in QueryURLs, opt \in QueryOpts : CallQueryOptions(u, opt)

SpecQuery == InitQuery /\ [][NextQuery]_vars

\* one client builds requests, one after the other
InitRequest ==
    /\ client \in RequestClients
    /\ customHeader \in (IF client.header = "nil" THEN {EmptyHeader} ELSE CustomHeaders)
    /\ built = NoBuilt
    /\ calls = [d \in Calls |-> NoCall]
    /\ granted = 0
    /\ transportCalls = 0
    /\ probe = NoProbe

NextRequest ==
    \/ \E method \in Methods, urlStr \in URLStrs, body \in Payloads,
          cm \in CustomMarshalResults, cb \in RequestCallbackResults :
           NewRequest(method, urlStr, body, cm, cb)
    \/ TakeRequest

SpecRequest == InitRequest /\ [][NextRequest]_vars

----------------------------------------------------------------------------
(* Properties *)

Range(f) == {f[i] : i \in DOMAIN f}

\* s is the start of t
IsPrefix(s, t) == Len(s) <= Len(t) /\ SubSeq(t, 1, Len(s)) = s

\* the call has returned to its caller
Returned(d) == d.pc = "done" /\ d.outcome = "returned"

\* the call has left Do by a panic
Panicked(d) == d.pc = "done" /\ d.outcome = "panic"

\* the transport gave the call a response and no error
TransportSucceeded(d) == "SENT" \in Range(d.stages) /\ ~d.sendErr

\* C1: when limiter.Wait fails, Do returns a nil response with ErrTooManyRequest,
\* and neither the transport nor the ResponseCallback nor the Unmarshaler is called
C1_ThrottledNeverSent ==
    \A c \in Calls : calls[c].waitErr =>
        /\ Returned(calls[c])
        /\ calls[c].retResp = "nil"
        /\ calls[c].retErr = <<"too many requests">>
        /\ Range(calls[c].stages) \cap {"SENT", "INTERCEPTED", "DECODED"} = {}

\* C1 happens: a call whose context was cancelled at the gate was turned away
C1_Witness ==
    \E c \in Calls : calls[c].waitErr /\ calls[c].ctx = "cancelled" /\ calls[c].pc = "done"

\* C2 as stated: without keepResponseBody, reading the body of the response Do
\* returned fails, on every return after the transport succeeded
C2_Original ==
    \A c \in Calls :
        Returned(calls[c]) /\ TransportSucceeded(calls[c]) /\ ~client.keepResponseBody =>
            /\ calls[c].retResp \in Responses
            /\ ReadAll(calls[c], calls[c].Body[calls[c].retResp]).err # NoErr

\* C2 as amended: without keepResponseBody, Close was called on the body of the
\* response Do returned, on every return after the transport succeeded; reading
\* that body fails when it is a network stream
C2_ReturnedBodyClosed ==
    \A c \in Calls :
        Returned(calls[c]) /\ TransportSucceeded(calls[c]) /\ ~client.keepResponseBody =>
            /\ calls[c].retResp \in Responses
            /\ calls[c].Body[calls[c].retResp] \in StreamIds
            /\ calls[c].streams[calls[c].Body[calls[c].retResp]].closes >= 1
            /\ calls[c].Body[calls[c].retResp] \in NetStreams =>
                   ReadAll(calls[c], calls[c].Body[calls[c].retResp]).err # NoErr

\* C2 happens: the Unmarshaler failed and the transport's stream was closed
C2_Witness ==
    \E c \in Calls :
        /\ Returned(calls[c]) /\ ~client.keepResponseBody /\ calls[c].unmErr
        /\ calls[c].retResp = "T" /\ calls[c].Body["T"] = "orig"
        /\ calls[c].streams["orig"].closes = 1
        /\ calls[c].streams["orig"].pos < Len(calls[c].data)

\* C3: with keepResponseBody, the response Do returns after the transport
\* succeeded has a body that reads to its end without error and yields the bytes
\* of the transport's body
C3_KeptBodyReadable ==
    \A c \in Calls :
        Returned(calls[c]) /\ TransportSucceeded(calls[c]) /\ client.keepResponseBody =>
            /\ calls[c].retResp \in Responses
            /\ calls[c].Body[calls[c].retResp] \in StreamIds
            /\ ReadAll(calls[c], calls[c].Body[calls[c].retResp])
                   = [bytes |-> calls[c].data, err |-> NoErr]

\* C4: the default ResponseCallback passes a response with a status code in
\* 200..299 on without error, and for every other status code Do returns the
\* response with an error whose text is the status line
C4_DefaultResponseCallback ==
    \A c \in Calls :
        client.ResponseCallback = "default" /\ "INTERCEPTED" \in Range(calls[c].stages) =>
            IF calls[c].statusCode \in 200..299
                THEN /\ ~calls[c].rcErr
                     /\ calls[c].resp = "T"
                     /\ \/ calls[c].pc = "decode"
                        \/ "DECODED" \in Range(calls[c].stages)
                        \/ Panicked(calls[c]) /\ client.Unmarshaler = "nil"
                ELSE /\ Returned(calls[c])
                     /\ calls[c].retResp = "T"
                     /\ calls[c].retErr = <<calls[c].status>>
                     /\ "DECODED" \notin Range(calls[c].stages)

\* C4 happens: a response with status code 300 came back as an error
C4_Witness ==
    \E c \in Calls :
        /\ client.ResponseCallback = "default" /\ Returned(calls[c])
        /\ calls[c].statusCode = 300 /\ calls[c].retErr = <<"404 Not Found">>
        /\ calls[c].retResp = "T"

\* the stages a call has passed are a start of order, or one followed by DONE
StagesFollow(st, order) ==
    \/ IsPrefix(st, order)
    \/ /\ Len(st) >= 1
       /\ st[Len(st)] = "DONE"
       /\ IsPrefix(SubSeq(st, 1, Len(st) - 1), order)

C6_Original ==
    built.outcome # "none" /\ (client.Marshaler = "nil" \/ client.RequestCallback = "nil") =>
        built.outcome = "panic"

\* C6 as amended: with a nil Marshaler NewRequest panics when the path parses;
\* with a nil RequestCallback and a Marshaler it panics when the path parses,
\* marshaling succeeds and the method is valid; otherwise it returns no
\* request and the error of the step that failed
C6_NilCollaboratorRequest ==
    built.outcome # "none" /\ (client.Marshaler = "nil" \/ client.RequestCallback = "nil") =>
        IF /\ urlParses(built.urlStr)
           /\ \/ client.Marshaler = "nil"
              \/ built.merr = NoErr /\ validMethod(built.method)
            THEN built.outcome = "panic"
            ELSE built.outcome = "returned" /\ built.req = "nil" /\ built.err # NoErr

\* C6 happens: NewRequest panicked on a nil RequestCallback after marshaling
C6_Witness ==
    /\ client.RequestCallback = "nil" /\ client.Marshaler # "nil"
    /\ built.outcome = "panic" /\ built.marshaled

\* C7 as stated: Do panics whenever the ResponseCallback or the Unmarshaler is nil
C7_Original ==
    \A c \in Calls :
        calls[c].pc = "done"
            /\ (client.ResponseCallback = "nil" \/ client.Unmarshaler = "nil") =>
                Panicked(calls[c])

\* C7 as amended: with a nil ResponseCallback or Unmarshaler, Do panics when
\* the transport returned a response without error and the ResponseCallback is
\* nil or returned no error; a call the rate gate or the transport failed, and a
\* call whose ResponseCallback returned a response with an error, returns that error
C7_NilCollaboratorDo ==
    \A c \in Calls :
        calls[c].pc = "done"
            /\ (client.ResponseCallback = "nil" \/ client.Unmarshaler = "nil") =>
                /\ TransportSucceeded(calls[c])
                       /\ (client.ResponseCallback = "nil" \/ ~calls[c].rcErr) =>
                           Panicked(calls[c])
                /\ calls[c].waitErr \/ calls[c].sendErr =>
                       Returned(calls[c]) /\ calls[c].retErr # NoErr
                /\ calls[c].rcErr /\ calls[c].resp # "nil" =>
                       Returned(calls[c]) /\ calls[c].retErr # NoErr

\* C7 happens: Do panicked on a nil Unmarshaler after the ResponseCallback ran
C7_Witness ==
    \E c \in Calls :
        /\ client.Unmarshaler = "nil" /\ Panicked(calls[c])
        /\ "INTERCEPTED" \in Range(calls[c].stages)
        /\ calls[c].err = <<"Unmarshaler is nil">>

\* C8: without keepResponseBody, when Do panics on a nil ResponseCallback or
\* Unmarshaler after the transport returned a response, the body of that
\* response has been closed
C8_ClosedOnPanic ==
    \A c \in Calls :
        /\ Panicked(calls[c]) /\ TransportSucceeded(calls[c]) /\ ~client.keepResponseBody
        /\ calls[c].err \in {<<"ResponseCallback is nil">>, <<"Unmarshaler is nil">>}
        => calls[c].streams[calls[c].tbody].closes >= 1

\* C9: NewRequest never returns a nil request with a nil error
C9_NoNilRequestWithoutError ==
    ~(built.outcome = "returned" /\ built.req = "nil" /\ built.err = NoErr)

\* C10 as stated: the Content-Type and Accept headers the RequestCallback sees
\* are the content type the Marshaler returned
C10_Original ==
    built.intercepted =>
        /\ HeaderGet(built.seen, "Content-Type") = built.contentType
        /\ HeaderGet(built.seen, "Accept") = built.contentType

\* C10 as amended: the last value of Content-Type and of Accept the
\* RequestCallback sees is the content type the Marshaler returned, and it is
\* the only value when the client has no custom header set
C10_ContentTypeAppended ==
    built.intercepted =>
        /\ built.seen["Content-Type"] # <<>> /\ built.seen["Accept"] # <<>>
        /\ built.seen["Content-Type"][Len(built.seen["Content-Type"])] = built.contentType
        /\ built.seen["Accept"][Len(built.seen["Accept"])] = built.contentType
        /\ client.header = "nil" =>
               /\ built.seen["Content-Type"] = <<built.contentType>>
               /\ built.seen["Accept"] = <<built.contentType>>

\* C10 happens: a custom header set that holds a Content-Type got a second one
C10_Witness ==
    /\ built.intercepted /\ client.header # "nil"
    /\ Len(built.seen["Content-Type"]) >= 2
    /\ HeaderGet(built.seen, "Content-Type") = "text/html"
    /\ built.contentType = ContentTypeJSON

\* the Authorization values basic-auth can produce from the credentials of the
\* clients of SpecRequest
BasicAuthValues ==
    {BasicAuth(c.username, c.password) : c \in RequestClients}

\* C11: the request the RequestCallback sees carries the basic-auth value of
\* the client's username and password exactly when both are non-empty, and then
\* it is the only Authorization value, whatever the custom header set held;
\* with one of them empty no basic-auth value is in the request
C11_BasicAuthIffBoth ==
    built.intercepted =>
        IF client.username # "" /\ client.password # ""
            THEN built.seen["Authorization"] = <<BasicAuth(client.username, client.password)>>
            ELSE \A i \in 1..Len(built.seen["Authorization"]) :
                     built.seen["Authorization"][i] \notin BasicAuthValues

\* C11 happens: the custom header set held its own Authorization value and
\* both credentials are set
C11_Witness ==
    /\ built.intercepted
    /\ client.header # "nil" /\ client.username # "" /\ client.password # ""
    /\ built.given["Authorization"] = <<"fake">>
    /\ built.seen["Authorization"] = <<BasicAuth("user1", "123456")>>

\* C12: no step of NewRequest changes the client's configuration or the
\* header set that was given to WithHeader
C12_ConfigurationReadOnly ==
    [][client' = client /\ customHeader' = customHeader]_vars

\* the argument of the last option of the given constructor, or the default
LastOption(opts, name, default) ==
    LET at == {i \in 1..Len(opts) : opts[i].name = name}
    IN  IF at = {} THEN default
        ELSE opts[CHOOSE i \in at : \A j \in at : j <= i].arg

\* the positions of the options New rejects
InvalidOptions(opts) ==
    {i \in 1..Len(opts) :
        /\ opts[i].name \in {"WithUsername", "WithPassword", "WithContentType"}
        /\ opts[i].arg = ""}

\* C13: New calls the options in argument order; with an unparsable base
\* address it calls none, and at the first option with an empty username,
\* password or content type it stops: the client is nil, the error is not,
\* and no later option is called. When all succeed every field holds the
\* argument of the last option that sets it, or its default
C13_OptionsInOrder ==
    probe.fn = "New" =>
        LET bad == InvalidOptions(probe.opts)
        IN  IF ~baseURLParses(probe.baseURL)
                THEN probe.c = NilClient /\ probe.err # NoErr /\ probe.applied = 0
            ELSE IF bad # {}
                THEN /\ probe.c = NilClient /\ probe.err # NoErr
                     /\ probe.applied \in bad
                     /\ \A i \in bad : probe.applied <= i
            ELSE /\ probe.err = NoErr /\ probe.applied = Len(probe.opts)
                 /\ client = probe.c
                 /\ probe.c =
                      [client |-> LastOption(probe.opts, "WithHTTPClient", "timeout30s"),
                       BaseURL |-> probe.baseURL,
                       limiter |-> LastOption(probe.opts, "WithRateLimiter", FALSE),
                       ContentType |-> LastOption(probe.opts, "WithContentType", ContentTypeJSON),
                       username |-> LastOption(probe.opts, "WithUsername", ""),
                       password |-> LastOption(probe.opts, "WithPassword", ""),
                       keepResponseBody |-> LastOption(probe.opts, "WithKeepResponseBody", FALSE),
                       header |-> LastOption(probe.opts, "WithHeader", "nil"),
                       Marshaler |-> "default", Unmarshaler |-> "default",
                       RequestCallback |-> "default", ResponseCallback |-> "default"]

\* C13 happens: New stopped at an invalid option that a valid one follows
C13_Witness ==
    /\ probe.fn = "New" /\ baseURLParses(probe.baseURL)
    /\ probe.opts = <<[name |-> "WithContentType", arg |-> ""],
                      [name |-> "WithUsername", arg |-> "user1"]>>
    /\ probe.c = NilClient /\ probe.applied = 1
    /\ probe.err = <<"content type cannot be empty">>
    /\ client = ZeroClient

\* C14: when the transport returns an error, Do returns the response the
\* transport returned (nil when it returned none) and that error; the body is
\* not managed, neither the ResponseCallback nor the Unmarshaler is called,
\* and the transport is called once
C14_TransportErrorReturned ==
    \A c \in Calls :
        calls[c].sendErr =>
            /\ Returned(calls[c])
            /\ calls[c].retResp = (IF calls[c].tbody = "orig" THEN "T" ELSE "nil")
            /\ calls[c].retErr =
                   (IF calls[c].ctx = "cancelled" THEN <<"context canceled">>
                                                  ELSE <<"transport failed">>)
            /\ Range(calls[c].stages) \cap {"BODY-MANAGED", "INTERCEPTED", "DECODED"} = {}
            /\ Cardinality({i \in 1..Len(calls[c].stages) : calls[c].stages[i] = "SENT"}) = 1

\* C14 happens: the transport failed and handed back a response with it
C14_Witness ==
    /\ calls[Caller].sendErr /\ calls[Caller].pc = "done"
    /\ calls[Caller].retResp = "T" /\ calls[Caller].retErr = <<"transport failed">>

\* C15: when the ResponseCallback or the Unmarshaler returned an error, Do
\* returns that error together with a non-nil response, the one the
\* ResponseCallback returned
C15_CollaboratorErrorReturned ==
    \A c \in Calls :
        calls[c].pc = "done" /\ (calls[c].rcErr \/ calls[c].unmErr) =>
            /\ Returned(calls[c])
            /\ calls[c].retErr # NoErr
            /\ calls[c].retErr = (IF calls[c].rcErr THEN calls[c].rcRetErr
                                                    ELSE calls[c].unmRetErr)
            /\ calls[c].retResp # "nil"
            /\ calls[c].retResp = (CASE calls[c].rcRet = "other" -> "O"
                                     [] calls[c].rcRet = "nil" -> "nil"
                                     [] OTHER -> "T")

\* the content types the default codec knows
KnownContentTypes == {ContentTypeText, ContentTypeJSON, ContentTypeYAML}

\* C16: for a content type that is none of the three known ones, marshal of a
\* non-nil payload and unmarshal into a non-nil target that is no io.Writer
\* return ErrUnknownContentType wrapped with the identifier; marshal writes
\* nothing, unmarshal reads nothing, and NewRequest returns that error and no
\* request
C16_UnknownContentType ==
    /\ probe.fn = "marshal" /\ probe.v # "nil" /\ probe.mediaType \notin KnownContentTypes =>
           /\ probe.err = <<probe.mediaType, "unknown media type">>
           /\ probe.out = <<>>
    /\ probe.fn = "unmarshal" /\ probe.v \notin {"nil", "writer"}
          /\ probe.mediaType \notin KnownContentTypes =>
           /\ probe.err = <<probe.mediaType, "unknown media type">>
           /\ probe.d.streams[probe.r].pos = 0 /\ probe.out = <<>>
    /\ built.outcome # "none" /\ urlParses(built.urlStr) /\ built.body # "nil"
          /\ client.ContentType \notin KnownContentTypes =>
           /\ built.outcome = "returned" /\ built.req = "nil"
           /\ built.err = <<client.ContentType, "unknown media type">>
           /\ built.out = <<>> /\ ~built.intercepted

\* C16 happens: NewRequest was given a payload on a client whose content type
\* is not known
C16_Witness ==
    /\ client.ContentType = "text/html" /\ built.outcome = "returned"
    /\ built.body = "msg" /\ built.marshaled
    /\ built.err = <<"text/html", "unknown media type">>

\* a NewRequest call without payload that got past url.Parse and http.NewRequest
NilPayloadRequest ==
    /\ built.outcome # "none" /\ built.body = "nil"
    /\ urlParses(built.urlStr) /\ validMethod(built.method)

\* C17 as stated: for every content type, marshal of a nil payload writes
\* nothing and returns the content type it was given and no error, and the
\* request NewRequest builds without payload has an empty body and the
\* client's ContentType as its Content-Type and Accept
C17_Original ==
    /\ probe.fn = "marshal" /\ probe.v = "nil" =>
           probe.ct = probe.mediaType /\ probe.out = <<>> /\ probe.err = NoErr
    /\ NilPayloadRequest =>
           /\ built.outcome = "returned" /\ built.req = "req" /\ built.err = NoErr
           /\ built.out = <<>>
           /\ HeaderGet(built.seen, "Content-Type") = client.ContentType
           /\ HeaderGet(built.seen, "Accept") = client.ContentType

\* C17 as amended: marshal of a nil payload writes nothing and returns the
\* content type it was given and no error; the request NewRequest builds
\* without payload has an empty body and the client's ContentType as the last
\* value of Content-Type and of Accept, the only value when the client has no
\* custom header set
C17_NilPayload ==
    /\ probe.fn = "marshal" /\ probe.v = "nil" =>
           probe.ct = probe.mediaType /\ probe.out = <<>> /\ probe.err = NoErr
    /\ NilPayloadRequest =>
           /\ built.outcome = "returned" /\ built.req = "req" /\ built.err = NoErr
           /\ built.out = <<>> /\ built.contentType = client.ContentType
           /\ built.seen["Content-Type"] # <<>> /\ built.seen["Accept"] # <<>>
           /\ built.seen["Content-Type"][Len(built.seen["Content-Type"])] = client.ContentType
           /\ built.seen["Accept"][Len(built.seen["Accept"])] = client.ContentType
           /\ client.header = "nil" =>
                  /\ built.seen["Content-Type"] = <<client.ContentType>>
                  /\ built.seen["Accept"] = <<client.ContentType>>

\* C17 happens: a request without payload on a client whose content type is
\* not known
C17_Witness ==
    /\ client.ContentType = ContentTypeUnknown /\ client.header = "nil"
    /\ built.outcome = "returned" /\ built.body = "nil" /\ built.req = "req"
    /\ built.seen["Accept"] = <<ContentTypeUnknown>>

\* C18: for every content type, unmarshal with a nil target returns no error
\* and reads no byte; with an io.Writer target it copies the bytes of the
\* body to the target as they are and reads the body to its end, and its
\* error is that of the read, never an unknown-media-type or payload-type error
C18_NilAndWriterTargets ==
    /\ probe.fn = "unmarshal" /\ probe.v = "nil" =>
           /\ probe.err = NoErr /\ probe.out = <<>>
           /\ probe.d.streams[probe.r].pos = 0
    /\ probe.fn = "unmarshal" /\ probe.v = "writer" =>
           /\ probe.out = probe.data
           /\ probe.d.streams[probe.r].pos = Len(probe.data)
           /\ probe.err = (IF probe.readErr THEN <<"unexpected EOF">> ELSE NoErr)

\* C18 happens: a body copied to a writer under a content type that is not known
C18_Witness ==
    /\ probe.fn = "unmarshal" /\ probe.v = "writer"
    /\ probe.mediaType = ContentTypeUnknown
    /\ probe.data = <<1, 2>> /\ probe.out = <<1, 2>> /\ probe.err = NoErr

\* C19: with text/plain, marshal of a non-nil payload that has no String
\* method returns an error, and unmarshal into a non-nil target that is
\* neither an io.Writer nor a *string returns the payload-type error
C19_TextPayloadTypeErrors ==
    /\ probe.fn = "marshal" /\ probe.mediaType = ContentTypeText
          /\ probe.v # "nil" /\ probe.v \notin Stringers =>
           probe.err # NoErr
    /\ probe.fn = "unmarshal" /\ probe.mediaType = ContentTypeText
          /\ probe.v \notin {"nil", "writer", "string"} =>
           probe.err = <<"target type is not string">>

\* C20: drainBody of http.NoBody returns http.NoBody twice and no error and
\* neither reads nor closes anything; drainBody of another stream whose read
\* and close succeed returns no error and two streams that, whatever the order
\* of the reads on them, each deliver the bytes of the original in order and
\* have delivered all of them when they report the end
C20_TwoIndependentCopies ==
    /\ probe.fn = "drainBody" /\ probe.b = "NoBody" =>
           /\ probe.r1 = "NoBody" /\ probe.r2 = "NoBody" /\ probe.err = NoErr
           /\ probe.d.streams = FreshStreams
           /\ probe.got = <<<<>>, <<>>>>
    /\ probe.fn = "drainBody" /\ probe.b # "NoBody" /\ ~probe.readErr /\ ~probe.closeErr =>
           /\ probe.err = NoErr
           /\ probe.r1 \notin {"nil", probe.b} /\ probe.r2 \notin {"nil", probe.b}
           /\ \A h \in {1, 2} :
                  /\ IsPrefix(probe.got[h], probe.data)
                  /\ probe.eof[h] => probe.got[h] = probe.data

\* C20 happens: both streams were read to their end, the second one first
\* in part
C20_Witness ==
    /\ probe.fn = "drainBody" /\ probe.b = "orig" /\ probe.data = <<1, 2>>
    /\ probe.eof = <<TRUE, TRUE>>
    /\ probe.got = <<<<1, 2>>, <<1, 2>>>>

\* C21: drainBody of a stream that is not http.NoBody has called Close on that
\* stream exactly once when it returns, also when reading it failed
C21_OriginalClosedOnce ==
    probe.fn = "drainBody" /\ probe.b # "NoBody" =>
        probe.d.streams[probe.b].closes = 1

\* C22 as stated: QueryOptions with an untyped nil or a nil pointer returns
\* the string it was given and no error, for every string
C22_Original ==
    probe.fn = "QueryOptions" /\ probe.opt \in {"nil", "nilptr"} =>
        probe.ret = probe.u /\ probe.err = NoErr

\* the query of u is as url.Values.Encode writes it: keys sorted, values escaped
Canonical(u) == u.query = Encode(Query(u))

\* C22 as amended: with a nil pointer QueryOptions returns the string it was
\* given and no error, for every string. With the untyped nil it returns the
\* string it was given and an error when the string does not parse, and
\* otherwise no error and the URL with its query written anew: the same
\* pairs with the keys sorted, which is the string given when that was
\* already sorted
C22_AbsentOptions ==
    /\ probe.fn = "QueryOptions" /\ probe.opt = "nilptr" =>
           probe.ret = probe.u /\ probe.err = NoErr
    /\ probe.fn = "QueryOptions" /\ probe.opt = "nil" =>
           IF ~queryURLParses(probe.u)
               THEN probe.ret = probe.u /\ probe.err # NoErr
               ELSE /\ probe.err = NoErr
                    /\ probe.ret.host = probe.u.host
                    /\ Canonical(probe.ret)
                    /\ Query(probe.ret) = Query(probe.u)
                    /\ Canonical(probe.u) => probe.ret = probe.u

\* C22 happens: the untyped nil with a URL whose query is not sorted
C22_Witness ==
    /\ probe.fn = "QueryOptions" /\ probe.opt = "nil"
    /\ probe.u = [host |-> "hostname.domain", query |-> <<<<"b", "1">>, <<"a", "2">>>>]
    /\ probe.ret = [host |-> "hostname.domain", query |-> <<<<"a", "2">>, <<"b", "1">>>>]
    /\ probe.err = NoErr

\* C23 as stated: for a string that does not parse QueryOptions returns that
\* string and an error whatever the options value is, and for an options
\* value that is no struct it returns the string it was given and an error
C23_Original ==
    probe.fn = "QueryOptions" /\ (~queryURLParses(probe.u) \/ probe.opt = "int") =>
        probe.ret = probe.u /\ probe.err # NoErr

\* C23 as amended: for a string that does not parse QueryOptions returns that
\* string, with an error for every options value but a nil pointer, and
\* without one for a nil pointer; for an options value that is no struct it
\* returns the string it was given and an error
C23_MalformedOrNotStruct ==
    /\ probe.fn = "QueryOptions" /\ ~queryURLParses(probe.u) =>
           /\ probe.ret = probe.u
           /\ probe.err # NoErr <=> probe.opt # "nilptr"
    /\ probe.fn = "QueryOptions" /\ probe.opt = "int" =>
           probe.ret = probe.u /\ probe.err # NoErr

\* C23 happens: the number 42 as options for a URL whose query is not sorted
C23_Witness ==
    /\ probe.fn = "QueryOptions" /\ probe.opt = "int"
    /\ probe.u = [host |-> "hostname.domain", query |-> <<<<"b", "1">>, <<"a", "2">>>>]
    /\ probe.ret = probe.u
    /\ probe.err = <<"query: Values() expects struct input. Got int">>

\* the call is suspended in limiter.Wait or in c.client.Do
Suspended(d) == d.pc \in {"gate", "send"}

\* C24: a call whose context is cancelled while it is suspended at the rate
\* gate or in the transport returns an error and runs no later stage: not the
\* transport when it was at the gate, and neither body handling,
\* ResponseCallback nor Unmarshaler; every call returns unless it stays
\* suspended for ever with a live context; and cancelling the context of one
\* call changes nothing of another call
C24_CancellationUnblocks ==
    /\ [](\A c \in Calls :
            calls[c].ctx = "cancelled" /\ calls[c].pc = "done" =>
                /\ Returned(calls[c]) /\ calls[c].retErr # NoErr
                /\ Range(calls[c].stages) \cap {"BODY-MANAGED", "INTERCEPTED", "DECODED"} = {}
                /\ calls[c].waitErr => "SENT" \notin Range(calls[c].stages))
    /\ \A c \in Calls :
           (Suspended(calls[c]) /\ calls[c].ctx = "cancelled") ~> (calls[c].pc = "done")
    /\ \A c \in Calls :
           [](calls[c].pc # "idle" =>
                  \/ <>(calls[c].pc = "done")
                  \/ <>[](Suspended(calls[c]) /\ calls[c].ctx = "live"))
    /\ [][\A c \in Calls : Cancel(c) =>
              \A e \in Calls \ {c} : calls'[e] = calls[e]]_vars
    /\ [](\A c \in Calls : calls[c].retErr = <<"context canceled">> =>
                                calls[c].ctx = "cancelled")

\* C24 happens: one call was cancelled in the transport and failed, the other
\* one, in flight at that time, returned without error
C24_Witness ==
    /\ calls["c1"].ctx = "cancelled" /\ calls["c1"].pc = "done"
    /\ calls["c1"].retErr = <<"context canceled">>
    /\ calls["c2"].pc = "done" /\ calls["c2"].retErr = NoErr
    /\ "DECODED" \in Range(calls["c2"].stages)

\* C25: every request NewRequest hands to the RequestCallback, after any
\* number of earlier NewRequest calls on the client, has exactly one
\* Content-Type value and exactly one Accept value, and no NewRequest call
\* changes the header set an earlier request was built on
C25_RequestsIndependent ==
    /\ [](built.intercepted =>
             Len(built.seen["Content-Type"]) = 1 /\ Len(built.seen["Accept"]) = 1)
    /\ [][built.aliased => customHeader' = customHeader]_vars

\* C26: the content type handed to the Unmarshaler is the client's
\* ContentType, whatever the Content-Type header of the response is when the
\* Unmarshaler is called; the default Unmarshaler decodes by it
C26_DecodesWithClientContentType ==
    \A c \in Calls :
        "DECODED" \in Range(calls[c].stages) =>
            /\ calls[c].mediaType = client.ContentType
            /\ client.Unmarshaler = "default" /\ calls[c].v \notin {"nil", "writer"} =>
                   /\ client.ContentType = ContentTypeUnknown =>
                          calls[c].unmRetErr = <<ContentTypeUnknown, "unknown media type">>
                   /\ client.ContentType # ContentTypeUnknown =>
                          calls[c].unmRetErr # <<ContentTypeUnknown, "unknown media type">>

\* C26 happens: a response that says unknown/unknown was decoded as JSON
C26_Witness ==
    /\ "DECODED" \in Range(calls[Caller].stages)
    /\ client.ContentType = ContentTypeJSON /\ client.Unmarshaler = "default"
    /\ calls[Caller].respContentType = ContentTypeUnknown
    /\ calls[Caller].v = "struct" /\ calls[Caller].retErr = NoErr

\* C27: when the transport returned a response without error and Do has
\* returned, the body the transport returned has been closed, or it is the
\* Body of the response Do returned
C27_NoBodyLeak ==
    \A c \in Calls :
        TransportSucceeded(calls[c]) /\ Returned(calls[c]) /\ calls[c].tbody # "NoBody" =>
            \/ calls[c].streams[calls[c].tbody].closes >= 1
            \/ /\ calls[c].retResp # "nil"
               /\ calls[c].Body[calls[c].retResp] = calls[c].tbody

\* C28: with a ResponseCallback and an Unmarshaler that are not nil, a call
\* whose transport returned a response without error does not leave Do by a
\* panic, whatever the ResponseCallback returned
C28_NoPanicOnCallbackResult ==
    \A c \in Calls :
        /\ client.ResponseCallback # "nil" /\ client.Unmarshaler # "nil"
        /\ TransportSucceeded(calls[c]) /\ calls[c].pc = "done"
        => Returned(calls[c])

\* C29: a client New returns without error has a Marshaler, an Unmarshaler, a
\* RequestCallback, a ResponseCallback and an HTTP client that are not nil,
\* and a ContentType that is not empty
C29_ClientComplete ==
    probe.fn = "New" /\ probe.err = NoErr =>
        /\ client = probe.c
        /\ client.Marshaler # "nil" /\ client.Unmarshaler # "nil"
        /\ client.RequestCallback # "nil" /\ client.ResponseCallback # "nil"
        /\ client.client # "nil"
        /\ client.ContentType # ""

\* C30: with a rate limiter, every transport call is made by a Do call whose
\* own limiter.Wait returned nil before, so the transport calls started never
\* outnumber the tokens the limiter has granted
C30_TransportCallsGranted ==
    client.limiter =>
        /\ transportCalls <= granted
        /\ \A d \in Calls :
              \/ calls[d].pc \in {"idle", "gate"}
              \/ calls[d].waitErr /\ "SENT" \notin Range(calls[d].stages)
              \/ /\ ~calls[d].waitErr
                 /\ Head(calls[d].stages) = "ADMITTED"
                 /\ granted >= Cardinality({e \in Calls : "ADMITTED" \in Range(calls[e].stages)})

\* two concurrent calls both passed the limiter and both reached the transport
C30_Witness ==
    /\ client.limiter
    /\ granted = 2
    /\ transportCalls = 2
    /\ \A d \in Calls : "SENT" \in Range(calls[d].stages)

====
